---- MODULE Spec2Model ----
(***************************************************************************)
(* Run orchestration and recovery of the NAM trainer backend               *)
(* (backend/store.py, backend/training_worker.py,                          *)
(* backend/routes_training.py).                                            *)
(*                                                                         *)
(* The process has one request thread (the asyncio event loop: handlers    *)
(* are `async def` without an await between their statements, so two       *)
(* handlers never interleave) and one daemon thread per created run        *)
(* (_run_training_worker).  Threads interleave between statements, and     *)
(* the process may die between any two steps; the module-level call        *)
(* load_runs_from_disk() runs when the next process starts.                *)
(***************************************************************************)
EXTENDS Integers, Sequences, FiniteSets, TLC

(***************************************************************************)
(* Bounds of the model.                                                    *)
(***************************************************************************)
MaxRuns == 1
MaxCrashes == 1
MaxVDirs == 2

RunIds == 1..MaxRuns
FileIds == {"f1"}

(***************************************************************************)
(* File and directory names are strings, modelled as sequences of          *)
(* character codes so that Python's orderings and the regular expression   *)
(* of _version_key are computed, not assumed.                              *)
(***************************************************************************)
DotNam == <<46, 110, 97, 109>>
Nam(stem) == stem \o DotNam
A_NAM == Nam(<<97>>)
B_NAM == Nam(<<98>>)
C_NAM == Nam(<<99>>)
LOG_TXT == <<108, 46, 116, 120, 116>>
VERSION_1 == <<118, 95, 49>>
VERSION_01 == <<118, 95, 48, 49>>
VERSION_2 == <<118, 95, 50>>
VERSION_9 == <<118, 95, 57>>
VERSION_10 == <<118, 95, 49, 48>>
CKPT == <<99, 107>>

IsDigit(c) == c >= 48 /\ c <= 57

\* str.__lt__ : lexicographic order on code points
RECURSIVE StrLess(_, _)
StrLess(a, b) ==
    IF a = <<>> THEN b # <<>>
    ELSE IF b = <<>> THEN FALSE
    ELSE IF Head(a) < Head(b) THEN TRUE
    ELSE IF Head(a) > Head(b) THEN FALSE
    ELSE StrLess(Tail(a), Tail(b))

\* sorted(xs)[0] for a non-empty collection of distinct names
SortedFirst(S) == CHOOSE x \in S : \A y \in S : x = y \/ StrLess(x, y)

\* fnmatch of "*.nam"
EndsWithNam(n) ==
    Len(n) >= Len(DotNam) /\ SubSeq(n, Len(n) - Len(DotNam) + 1, Len(n)) = DotNam

GlobNam(files) == {f \in files : EndsWithNam(f)}

\* re.search(r"(\d+)$", name): the maximal run of digits that ends the name
RECURSIVE TrailingDigits(_)
TrailingDigits(s) ==
    IF s = <<>> \/ ~IsDigit(s[Len(s)]) THEN <<>>
    ELSE Append(TrailingDigits(SubSeq(s, 1, Len(s) - 1)), s[Len(s)])

\* int(match.group(1))
RECURSIVE DigitsToInt(_)
DigitsToInt(d) ==
    IF d = <<>> THEN 0
    ELSE 10 * DigitsToInt(SubSeq(d, 1, Len(d) - 1)) + (d[Len(d)] - 48)

\* mutant of _version_key: the directories are compared by name alone
_version_key_by_name(name) == <<0, name>>

_version_key(name) ==
    LET m == TrailingDigits(name)
    IN  <<IF m # <<>> THEN DigitsToInt(m) ELSE -1, name>>

\* tuple comparison of two (int, str) keys
KeyLess(k1, k2) == k1[1] < k2[1] \/ (k1[1] = k2[1] /\ StrLess(k1[2], k2[2]))

\* max(version_dirs, key=_version_key); directory names are distinct
MaxByVersionKey(dirs) ==
    CHOOSE d \in dirs :
        \A e \in dirs : e = d \/ KeyLess(_version_key(e.name), _version_key(d.name))

(***************************************************************************)
(* The exported_models area of a run directory: whether it exists, its     *)
(* subdirectories (name, files) and the files directly under it.           *)
(***************************************************************************)
NoExports == [exists |-> FALSE, vdirs |-> {}, flat |-> {}]
VDir(n, fs) == [name |-> n, files |-> fs]

\* A path under RUNS_DIR/<run>/exported_models; None is NonePath.
NonePath == [run |-> 0, dir |-> <<>>, file |-> <<>>]
ExportPath(r, d, f) == [run |-> r, dir |-> d, file |-> f]

\* mutant of latest_exported_model_path: the files directly under
\* exported_models are scanned only when there is no subdirectory
latest_exported_model_path_no_fallthrough(r, rd) ==
    IF ~(rd.dir /\ rd.exp.exists) THEN NonePath
    ELSE LET version_dirs == rd.exp.vdirs
             latest == MaxByVersionKey(version_dirs)
             flat == GlobNam(rd.exp.flat)
         IN  IF version_dirs # {}
             THEN IF GlobNam(latest.files) # {}
                  THEN ExportPath(r, latest.name, SortedFirst(GlobNam(latest.files)))
                  ELSE NonePath
             ELSE IF flat # {} THEN ExportPath(r, <<>>, SortedFirst(flat))
             ELSE NonePath

latest_exported_model_path(r, rd) ==
    IF ~(rd.dir /\ rd.exp.exists) THEN NonePath
    ELSE LET version_dirs == rd.exp.vdirs
             latest == MaxByVersionKey(version_dirs)
             flat == GlobNam(rd.exp.flat)
         IN  IF version_dirs # {} /\ GlobNam(latest.files) # {}
             THEN ExportPath(r, latest.name, SortedFirst(GlobNam(latest.files)))
             ELSE IF flat # {} THEN ExportPath(r, <<>>, SortedFirst(flat))
             ELSE NonePath

(***************************************************************************)
(* A run entry: the dict stored in store.runs and serialised to run.json.  *)
(* Timestamps are the symbolic results of the time.time() call that        *)
(* produced them ("None" is Python's None).  The payload copies (name,     *)
(* description, training, metadata, progress) are written once at creation *)
(* and never changed by the modelled operations, so they are left out.     *)
(***************************************************************************)
Terminal == {"COMPLETED", "FAILED", "CANCELLED"}

NoEntry ==
    [runId |-> 0, status |-> "NONE", createdAt |-> "None", startedAt |-> "None",
     updatedAt |-> "None", completedAt |-> "None", metrics |-> "None",
     modelPath |-> NonePath, error |-> "<absent>", lists |-> FALSE]

\* routes_training.py: the dict literal of create_training_run
NewRunEntry(r) ==
    [runId |-> r, status |-> "QUEUED", createdAt |-> "t_create",
     startedAt |-> "None", updatedAt |-> "t_create", completedAt |-> "None",
     metrics |-> "None", modelPath |-> NonePath, error |-> "<absent>",
     lists |-> TRUE]

(***************************************************************************)
(* json.dump / json.loads of a run entry.  None becomes null, a float a    *)
(* number, a str a string; the optional "error" key and the                *)
(* metricsHistory/logs keys are present in the document only when they are *)
(* present in the dict.                                                    *)
(***************************************************************************)
JNumber(t) == IF t = "None" THEN [t |-> "null", v |-> ""] ELSE [t |-> "number", v |-> t]
JString(p) == IF p = NonePath THEN [t |-> "null", v |-> NonePath] ELSE [t |-> "string", v |-> p]
JObject(m) == IF m = "None" THEN [t |-> "null", v |-> ""] ELSE [t |-> "object", v |-> m]
JKey(x) == IF x = "<absent>" THEN [t |-> "nokey", v |-> ""] ELSE [t |-> "string", v |-> x]

json_dump(e) ==
    [runId |-> e.runId, status |-> e.status, createdAt |-> JNumber(e.createdAt),
     startedAt |-> JNumber(e.startedAt), updatedAt |-> JNumber(e.updatedAt),
     completedAt |-> JNumber(e.completedAt), metrics |-> JObject(e.metrics),
     modelPath |-> JString(e.modelPath), error |-> JKey(e.error), lists |-> e.lists]

PyValue(j, none) == IF j.t \in {"null", "nokey"} THEN none ELSE j.v

json_loads(d) ==
    [runId |-> d.runId, status |-> d.status, createdAt |-> PyValue(d.createdAt, "None"),
     startedAt |-> PyValue(d.startedAt, "None"), updatedAt |-> PyValue(d.updatedAt, "None"),
     completedAt |-> PyValue(d.completedAt, "None"), metrics |-> PyValue(d.metrics, "None"),
     modelPath |-> PyValue(d.modelPath, NonePath), error |-> PyValue(d.error, "<absent>"),
     lists |-> d.lists]

(***************************************************************************)
(* A run directory RUNS_DIR/<run_id>: whether it exists, the state of      *)
(* run.json in it (absent, opened for writing and not yet written, or a    *)
(* complete JSON document of a dict, or some other JSON document), whether the copied audio files are there, and  *)
(* its exported_models area.                                               *)
(***************************************************************************)
NoMeta == [state |-> "nofile", doc |-> json_dump(NoEntry)]
TruncMeta == [state |-> "trunc", doc |-> json_dump(NoEntry)]
\* a run.json that holds a JSON document other than an object ([], null, 3, "x")
NotDictMeta == [state |-> "notdict", doc |-> json_dump(NoEntry)]
JsonMeta(e) == [state |-> "json", doc |-> json_dump(e)]

NoDir == [dir |-> FALSE, meta |-> NoMeta, inputs |-> FALSE, exp |-> NoExports]

VARIABLES
    runs,        \* store.runs: the run ids that are keys of the index
    entry,       \* the dict object of each run (shared by the index and the worker)
    file_meta,   \* store.file_meta: the file ids known to this process
    fs,          \* the run directories on disk
    wpc,         \* where each run's worker thread is
    cwd_before,  \* the worker's local cwd_before
    cwd,         \* the process working directory: 0 is the start directory, r is RUNS_DIR/r
    req,         \* the request thread: handler position and the run it works on
    life,        \* history of each run id (unused, creating, created, ...)
    crashes,     \* number of process restarts so far
    arg,         \* the arguments of a function that is exercised on its own
    ret,         \* what that function returned
    started      \* how many worker threads were ever started for each run id

vars == <<runs, entry, file_meta, fs, wpc, cwd_before, cwd, req, life, crashes, arg, ret,
          started>>

\* the state of the server process and its disk
server == <<runs, entry, file_meta, fs, wpc, cwd_before, cwd, req, life, crashes, started>>

Idle == [pc |-> "idle", run |-> 0]

\* no function is being exercised on its own
NoCall == [op |-> "none"]

(***************************************************************************)
(* store.persist_run, in its two effects on the disk: mkdir + open("w"),   *)
(* which truncates run.json, and json.dump + close, which writes the whole *)
(* dict as it is at that moment.  A write to a file that was unlinked      *)
(* after it was opened does not reach the directory.                       *)
(***************************************************************************)
persist_open(rd) == [rd EXCEPT !.dir = TRUE, !.meta = TruncMeta]

persist_write(rd, e) ==
    IF rd.dir /\ rd.meta.state # "nofile" THEN [rd EXCEPT !.meta = JsonMeta(e)] ELSE rd

\* Path(model_path).exists()
PathExists(p, disk) ==
    /\ p # NonePath
    /\ disk[p.run].dir
    /\ disk[p.run].exp.exists
    /\ IF p.dir = <<>> THEN p.file \in disk[p.run].exp.flat
       ELSE \E d \in disk[p.run].exp.vdirs : d.name = p.dir /\ p.file \in d.files

\* mutant of resolve_model_path: the cached modelPath is not consulted
resolve_model_path_uncached(run, disk) ==
    LET chosen == latest_exported_model_path(run.runId, disk[run.runId])
    IN  IF chosen = NonePath
        THEN [path |-> NonePath, run |-> run, persist |-> FALSE]
        ELSE [path |-> chosen, run |-> [run EXCEPT !.modelPath = chosen], persist |-> TRUE]

(***************************************************************************)
(* routes_training.resolve_model_path: the path it returns, the dict after *)
(* the call, and whether it called persist_run.                            *)
(***************************************************************************)
resolve_model_path(run, disk) ==
    LET chosen == latest_exported_model_path(run.runId, disk[run.runId])
    IN  IF run.modelPath # NonePath /\ PathExists(run.modelPath, disk)
        THEN [path |-> run.modelPath, run |-> run, persist |-> FALSE]
        ELSE IF chosen = NonePath
        THEN [path |-> NonePath, run |-> run, persist |-> FALSE]
        ELSE [path |-> chosen, run |-> [run EXCEPT !.modelPath = chosen], persist |-> TRUE]

\* training_worker.py lines 125-131: the worker's own search for the artifact
worker_model_path(r, rd) ==
    IF rd.dir /\ rd.exp.exists /\ GlobNam(rd.exp.flat) # {}
    THEN ExportPath(r, <<>>, SortedFirst(GlobNam(rd.exp.flat)))
    ELSE NonePath

\* mutant of _fallback_run_from_directory: the artifact is searched the way the
\* worker searches it (files directly under exported_models only)
_fallback_run_flat_glob(r, rd) ==
    LET model_path == worker_model_path(r, rd)
        status == IF model_path # NonePath THEN "COMPLETED" ELSE "UNKNOWN"
    IN  [runId |-> r, status |-> status, createdAt |-> "mtime", startedAt |-> "mtime",
         updatedAt |-> "mtime",
         completedAt |-> IF status = "COMPLETED" THEN "mtime" ELSE "None",
         metrics |-> "None", modelPath |-> model_path, error |-> "<absent>",
         lists |-> FALSE]

\* store._fallback_run_from_directory
_fallback_run_from_directory(r, rd) ==
    LET model_path == latest_exported_model_path(r, rd)
        status == IF model_path # NonePath THEN "COMPLETED" ELSE "UNKNOWN"
    IN  [runId |-> r, status |-> status, createdAt |-> "mtime", startedAt |-> "mtime",
         updatedAt |-> "mtime",
         completedAt |-> IF status = "COMPLETED" THEN "mtime" ELSE "None",
         metrics |-> "None", modelPath |-> model_path, error |-> "<absent>",
         lists |-> FALSE]

(***************************************************************************)
(* store.load_runs_from_disk on the run directories `disk`: the index it   *)
(* builds and the disk after it (a synthesized entry is persisted).        *)
(***************************************************************************)
\* mutant of RunData: an existing run.json is not read, the entry is synthesized
RunData_synthesized(r, rd) == _fallback_run_from_directory(r, rd)

RunData(r, rd) ==
    IF rd.meta.state = "json" THEN json_loads(rd.meta.doc)
    ELSE _fallback_run_from_directory(r, rd)

\* a directory with run.json that does not parse is skipped
Loaded(disk) == {r \in DOMAIN disk : disk[r].dir /\ disk[r].meta.state # "trunc"}

\* json.loads returns a list, a number, a string or None, and line 159 calls
\* .get on it outside the try: AttributeError leaves load_runs_from_disk and
\* the import of store.py
load_raises(disk) == \E r \in DOMAIN disk : disk[r].dir /\ disk[r].meta.state = "notdict"

\* run_id = run_data.get("runId") or child.name
LoadedKey(r, rd) == IF RunData(r, rd).runId # 0 THEN RunData(r, rd).runId ELSE r

load_runs_from_disk(disk) ==
    LET keys == {LoadedKey(r, disk[r]) : r \in Loaded(disk)}
        from(k) == CHOOSE r \in Loaded(disk) : LoadedKey(r, disk[r]) = k
    IN  [runs |-> keys,
         entry |-> [k \in DOMAIN disk |->
                      IF k \in keys
                      THEN [RunData(from(k), disk[from(k)]) EXCEPT !.runId = k]
                      ELSE NoEntry],
         fs |-> [r \in DOMAIN disk |->
                   IF disk[r].dir /\ disk[r].meta.state = "nofile"
                   THEN persist_write(persist_open(disk[r]),
                                      _fallback_run_from_directory(r, disk[r]))
                   ELSE disk[r]]]

(***************************************************************************)
(* store.delete_run_directory on one run directory.  `fail` names the      *)
(* removals that raise OSError: of run.json, of the exported_models tree.  *)
(* A directory that still has something in it cannot be removed.           *)
(***************************************************************************)
delete_run_directory(rd, fail) ==
    IF ~rd.dir THEN rd
    ELSE LET meta == IF rd.meta.state # "nofile" /\ "meta" \in fail THEN rd.meta ELSE NoMeta
             inputs == FALSE
             exp == IF rd.exp.exists /\ "exports" \in fail THEN rd.exp ELSE NoExports
             empty == meta.state = "nofile" /\ ~inputs /\ ~exp.exists
         IN  IF empty THEN NoDir
             ELSE [dir |-> TRUE, meta |-> meta, inputs |-> inputs, exp |-> exp]

(***************************************************************************)
(* What the external training routine (nam_run) may leave under            *)
(* exported_models when it returns: a versioned layout, a newest version   *)
(* directory without an artifact beside an older version and a legacy flat *)
(* artifact, or nothing.                                                   *)
(***************************************************************************)
LayVersioned ==
    [exists |-> TRUE, vdirs |-> {VDir(VERSION_1, {A_NAM}), VDir(VERSION_2, {B_NAM})},
     flat |-> {}]
LayMixed ==
    [exists |-> TRUE, vdirs |-> {VDir(VERSION_9, {A_NAM}), VDir(VERSION_10, {LOG_TXT})},
     flat |-> {C_NAM}]
TrainLayouts == {LayVersioned, LayMixed, NoExports}

\* the server right after its first start, on an empty runs directory
Boot ==
    /\ runs = {}
    /\ entry = [r \in RunIds |-> NoEntry]
    /\ file_meta = {}
    /\ fs = [r \in RunIds |-> NoDir]
    /\ wpc = [r \in RunIds |-> "none"]
    /\ cwd_before = [r \in RunIds |-> 0]
    /\ cwd = 0
    /\ req = Idle
    /\ life = [r \in RunIds |-> "unused"]
    /\ crashes = 0
    /\ started = [r \in RunIds |-> 0]

Init ==
    /\ Boot
    /\ arg = NoCall
    /\ ret = NoCall

(***************************************************************************)
(* The worker thread of run r: training_worker._run_training_worker.       *)
(***************************************************************************)
\* lines 51-60: look the entry up, mark it RUNNING
W_Begin(r) ==
    /\ wpc[r] = "begin"
    /\ IF r \in runs
       THEN /\ entry' = [entry EXCEPT ![r].status = "RUNNING",
                                      ![r].startedAt = "t_start",
                                      ![r].updatedAt = "t_start"]
            /\ wpc' = [wpc EXCEPT ![r] = "run_open"]
       ELSE /\ wpc' = [wpc EXCEPT ![r] = "done"]
            /\ UNCHANGED entry
    /\ UNCHANGED <<runs, file_meta, fs, cwd_before, cwd, req, life, crashes, arg, ret, started>>

\* persist_run(run_entry) at lines 61, 144 and 153: mkdir and open("w")
W_PersistOpen(r) ==
    /\ wpc[r] \in {"run_open", "comp_open", "fail_open"}
    /\ fs' = [fs EXCEPT ![r] = persist_open(fs[r])]
    /\ wpc' = [wpc EXCEPT ![r] = CASE wpc[r] = "run_open" -> "run_dump"
                                   [] wpc[r] = "comp_open" -> "comp_dump"
                                   [] wpc[r] = "fail_open" -> "fail_dump"]
    /\ UNCHANGED <<runs, entry, file_meta, cwd_before, cwd, req, life, crashes, arg, ret, started>>

\* persist_run(run_entry): json.dump and close
W_PersistDump(r) ==
    /\ wpc[r] \in {"run_dump", "comp_dump", "fail_dump"}
    /\ fs' = [fs EXCEPT ![r] = persist_write(fs[r], entry[r])]
    /\ wpc' = [wpc EXCEPT ![r] = IF wpc[r] = "run_dump" THEN "prep" ELSE "done"]
    /\ UNCHANGED <<runs, entry, file_meta, cwd_before, cwd, req, life, crashes, arg, ret, started>>

\* mutant of W_Prep: the exception of a failing copy is not caught and ends the
\* thread
W_Prep_uncaught(r) ==
    /\ wpc[r] = "prep"
    /\ \/ /\ fs' = [fs EXCEPT ![r].dir = TRUE, ![r].inputs = TRUE]
          /\ wpc' = [wpc EXCEPT ![r] = "chdir"]
       \/ /\ wpc' = [wpc EXCEPT ![r] = "done"]
          /\ UNCHANGED fs
    /\ UNCHANGED <<runs, entry, file_meta, cwd_before, cwd, req, life, crashes, arg, ret, started>>

\* lines 63-82: repair, mkdir of the run directory, the three copies
W_Prep(r) ==
    /\ wpc[r] = "prep"
    /\ \/ /\ fs' = [fs EXCEPT ![r].dir = TRUE, ![r].inputs = TRUE]
          /\ wpc' = [wpc EXCEPT ![r] = "chdir"]
       \/ /\ wpc' = [wpc EXCEPT ![r] = "except"]    \* a copy raises OSError
          /\ UNCHANGED fs
    /\ UNCHANGED <<runs, entry, file_meta, cwd_before, cwd, req, life, crashes, arg, ret, started>>

\* lines 85-86: cwd_before = os.getcwd(); os.chdir(run_dir)
W_Chdir(r) ==
    /\ wpc[r] = "chdir"
    /\ cwd_before' = [cwd_before EXCEPT ![r] = cwd]
    /\ IF fs[r].dir
       THEN cwd' = r /\ wpc' = [wpc EXCEPT ![r] = "train"]
       ELSE cwd' = cwd /\ wpc' = [wpc EXCEPT ![r] = "except"]
    /\ UNCHANGED <<runs, entry, file_meta, fs, req, life, crashes, arg, ret, started>>

\* line 120: nam_run(**kwargs) reads and writes relative to the process cwd
W_Train(r) ==
    /\ wpc[r] = "train"
    /\ \/ /\ cwd # 0 /\ fs[cwd].dir /\ fs[cwd].inputs
          /\ \E lay \in TrainLayouts : fs' = [fs EXCEPT ![cwd].exp = lay]
          /\ wpc' = [wpc EXCEPT ![r] = "restore_ok"]
       \/ /\ wpc' = [wpc EXCEPT ![r] = "restore_exc"]    \* the training raises
          /\ UNCHANGED fs
    /\ UNCHANGED <<runs, entry, file_meta, cwd_before, cwd, req, life, crashes, arg, ret, started>>

\* lines 122-123: finally: os.chdir(cwd_before)
W_Restore(r) ==
    /\ wpc[r] \in {"restore_ok", "restore_exc"}
    /\ cwd_before' = [cwd_before EXCEPT ![r] = 0]    \* the local is dead from here on
    /\ IF cwd_before[r] = 0 \/ fs[cwd_before[r]].dir
       THEN /\ cwd' = cwd_before[r]
            /\ wpc' = [wpc EXCEPT ![r] = IF wpc[r] = "restore_ok" THEN "complete"
                                          ELSE "except"]
       ELSE /\ cwd' = cwd
            /\ wpc' = [wpc EXCEPT ![r] = "except"]
    /\ UNCHANGED <<runs, entry, file_meta, fs, req, life, crashes, arg, ret, started>>

\* lines 125-143: the COMPLETED transition in memory
W_Complete(r) ==
    /\ wpc[r] = "complete"
    /\ entry' = [entry EXCEPT ![r].status = "COMPLETED",
                              ![r].completedAt = "t_done",
                              ![r].updatedAt = "t_done",
                              ![r].modelPath = worker_model_path(r, fs[r]),
                              ![r].metrics = "zeros"]
    /\ wpc' = [wpc EXCEPT ![r] = "comp_open"]
    /\ UNCHANGED <<runs, file_meta, fs, cwd_before, cwd, req, life, crashes, arg, ret, started>>

\* mutant of W_Except: the status is set but the message is not stored
W_Except_without_message(r) ==
    /\ wpc[r] = "except"
    /\ entry' = [entry EXCEPT ![r].status = "FAILED",
                              ![r].updatedAt = "t_fail"]
    /\ wpc' = [wpc EXCEPT ![r] = "fail_open"]
    /\ UNCHANGED <<runs, file_meta, fs, cwd_before, cwd, req, life, crashes, arg, ret, started>>

\* lines 148-152: the FAILED transition in memory
W_Except(r) ==
    /\ wpc[r] = "except"
    /\ entry' = [entry EXCEPT ![r].status = "FAILED",
                              ![r].updatedAt = "t_fail",
                              ![r].error = "msg"]
    /\ wpc' = [wpc EXCEPT ![r] = "fail_open"]
    /\ UNCHANGED <<runs, file_meta, fs, cwd_before, cwd, req, life, crashes, arg, ret, started>>

Worker(r) ==
    \/ W_Begin(r)
    \/ W_PersistOpen(r)
    \/ W_PersistDump(r)
    \/ W_Prep(r)
    \/ W_Chdir(r)
    \/ W_Train(r)
    \/ W_Restore(r)
    \/ W_Complete(r)
    \/ W_Except(r)

(***************************************************************************)
(* The request thread.                                                     *)
(***************************************************************************)
\* routes_files.upload_file: the file is stored and its record registered
Upload(f) ==
    /\ req = Idle
    /\ f \notin file_meta
    /\ file_meta' = file_meta \cup {f}
    /\ UNCHANGED <<runs, entry, fs, wpc, cwd_before, cwd, req, life, crashes, arg, ret, started>>

\* uuid4: an identifier that was never used
FreshRunId(r) == life[r] = "unused" /\ \A q \in RunIds : q < r => life[q] # "unused"

\* create_training_run lines 98-102: 404 when a file id is unknown
CreateNotFound ==
    /\ req = Idle
    /\ \E i \in FileIds, o \in FileIds : ~({i, o} \subseteq file_meta)
    /\ UNCHANGED vars

\* create_training_run lines 98-129: validation passed, the entry is put in the index
CreateInsert(r) ==
    /\ req = Idle
    /\ FreshRunId(r)
    /\ \E i \in FileIds, o \in FileIds : {i, o} \subseteq file_meta
    /\ runs' = runs \cup {r}
    /\ entry' = [entry EXCEPT ![r] = NewRunEntry(r)]
    /\ life' = [life EXCEPT ![r] = "creating"]
    /\ req' = [pc |-> "create_open", run |-> r]
    /\ UNCHANGED <<file_meta, fs, wpc, cwd_before, cwd, crashes, arg, ret, started>>

\* line 130: persist_run(runs[run_id]), mkdir and open("w")
CreateOpen ==
    /\ req.pc = "create_open"
    /\ fs' = [fs EXCEPT ![req.run] = persist_open(fs[req.run])]
    /\ req' = [req EXCEPT !.pc = "create_dump"]
    /\ UNCHANGED <<runs, entry, file_meta, wpc, cwd_before, cwd, life, crashes, arg, ret, started>>

\* mutant of CreateDump: the file is opened and closed without the dump
CreateDump_nothing_written ==
    /\ req.pc = "create_dump"
    /\ req' = [req EXCEPT !.pc = "create_start"]
    /\ UNCHANGED <<runs, entry, file_meta, fs, wpc, cwd_before, cwd, life, crashes, arg, ret, started>>

\* line 130: persist_run(runs[run_id]), json.dump and close
CreateDump ==
    /\ req.pc = "create_dump"
    /\ fs' = [fs EXCEPT ![req.run] = persist_write(fs[req.run], entry[req.run])]
    /\ req' = [req EXCEPT !.pc = "create_start"]
    /\ UNCHANGED <<runs, entry, file_meta, wpc, cwd_before, cwd, life, crashes, arg, ret, started>>

\* line 132: start_training_for_run, t.start()
CreateStart ==
    /\ req.pc = "create_start"
    /\ wpc' = [wpc EXCEPT ![req.run] = "begin"]
    /\ started' = [started EXCEPT ![req.run] = @ + 1]
    /\ req' = [req EXCEPT !.pc = "create_return"]
    /\ UNCHANGED <<runs, entry, file_meta, fs, cwd_before, cwd, life, crashes, arg, ret>>

\* lines 134-137: the response {"runId": run_id, "status": "QUEUED"}
CreateReturn ==
    /\ req.pc = "create_return"
    /\ life' = [life EXCEPT ![req.run] = "created"]
    /\ req' = Idle
    /\ UNCHANGED <<runs, entry, file_meta, fs, wpc, cwd_before, cwd, crashes, arg, ret, started>>

\* a read handler (status, nam-metadata, model download) for an unknown id: 404
ReadNotFound(r) ==
    /\ req = Idle
    /\ r \notin runs
    /\ UNCHANGED vars

\* a read handler for a known id: runs.get(run_id), then resolve_model_path(run)
\* up to and including run["modelPath"] = str(chosen).  The request remembers
\* what run.json held and where the run's worker was when the read began
\* (history only, nothing reads it back).
ReadResolve(r) ==
    /\ req = Idle
    /\ r \in runs
    /\ LET res == resolve_model_path(entry[r], fs)
       IN  /\ entry' = [entry EXCEPT ![r] = res.run]
           /\ req' = IF res.persist
                     THEN [pc |-> "resolve_open", run |-> r, disk |-> fs[r].meta,
                           worker |-> wpc[r]]
                     ELSE Idle
    /\ UNCHANGED <<runs, file_meta, fs, wpc, cwd_before, cwd, life, crashes, arg, ret, started>>

\* resolve_model_path line 53: persist_run(run), mkdir and open("w")
ResolveOpen ==
    /\ req.pc = "resolve_open"
    /\ fs' = [fs EXCEPT ![req.run] = persist_open(fs[req.run])]
    /\ req' = [req EXCEPT !.pc = "resolve_dump"]
    /\ UNCHANGED <<runs, entry, file_meta, wpc, cwd_before, cwd, life, crashes, arg, ret, started>>

\* resolve_model_path line 53: persist_run(run), json.dump and close
ResolveDump ==
    /\ req.pc = "resolve_dump"
    /\ fs' = [fs EXCEPT ![req.run] = persist_write(fs[req.run], entry[req.run])]
    /\ req' = Idle
    /\ UNCHANGED <<runs, entry, file_meta, wpc, cwd_before, cwd, life, crashes, arg, ret, started>>

(***************************************************************************)
(* The application as main.py assembles it: the routes in the order they   *)
(* are registered (the decorators of main.py first, then the two routers   *)
(* under the prefix /api).  A request is served by the first route whose   *)
(* method and path match.                                                  *)
(***************************************************************************)
Route(method, path, handler) == [method |-> method, path |-> path, handler |-> handler]

app_routes ==
    <<Route("GET", "/health", "main.health"),
      Route("GET", "/api/training-runs", "main.list_training_runs"),
      Route("GET", "/api/training-runs/{run_id}", "main.get_training_run"),
      Route("POST", "/api/training-runs/{run_id}/stop", "main.stop_training_run"),
      Route("POST", "/api/files", "routes_files.upload_file"),
      Route("GET", "/api/files/{file_id}/inspect", "routes_files.inspect_file"),
      Route("POST", "/api/files/detect-latency", "routes_files.detect_latency"),
      Route("POST", "/api/training-runs", "routes_training.create_training_run"),
      Route("GET", "/api/training-runs/{run_id}", "routes_training.get_training_run"),
      Route("GET", "/api/training-runs", "routes_training.list_training_runs"),
      Route("GET", "/api/training-runs/{run_id}/nam-metadata", "routes_training.get_training_run_nam_metadata"),
      Route("PUT", "/api/training-runs/{run_id}/nam-metadata", "routes_training.update_training_run_nam_metadata"),
      Route("GET", "/api/training-runs/{run_id}/metrics", "routes_training.get_training_run_metrics"),
      Route("GET", "/api/training-runs/{run_id}/model", "routes_training.download_training_run_model")>>

Matches(route, method, path) == route.method = method /\ route.path = path

Dispatch(method, path) ==
    LET first == CHOOSE i \in DOMAIN app_routes :
                    /\ Matches(app_routes[i], method, path)
                    /\ \A j \in 1..(i - 1) : ~Matches(app_routes[j], method, path)
    IN  app_routes[first].handler

\* main.build_stub_run: the same record for any run_id
build_stub_run(run_id) ==
    [code |-> 200, id |-> run_id, status |-> "COMPLETED", from |-> "stub"]

\* a status request GET /api/training-runs/{run_id} served by main.get_training_run
StatusRequest(r) ==
    /\ req = Idle
    /\ Dispatch("GET", "/api/training-runs/{run_id}") = "main.get_training_run"
    /\ req' = [pc |-> "status_sent", run |-> r]
    /\ UNCHANGED <<runs, entry, file_meta, fs, wpc, cwd_before, cwd, life, crashes, arg, ret,
                   started>>

\* a stop request POST /api/training-runs/{run_id}/stop served by
\* main.stop_training_run, which only builds its answer
StopRequest(r) ==
    /\ req = Idle
    /\ Dispatch("POST", "/api/training-runs/{run_id}/stop") = "main.stop_training_run"
    /\ req' = [pc |-> "stop_sent", run |-> r]
    /\ UNCHANGED <<runs, entry, file_meta, fs, wpc, cwd_before, cwd, life, crashes, arg, ret,
                   started>>

\* the answer of the handler that has just run, on its way to the client
Response ==
    CASE req.pc = "status_sent" -> build_stub_run(req.run)
      [] req.pc = "stop_sent" ->
            [code |-> 200, id |-> req.run, status |-> "stopped", from |-> "stub"]
      [] OTHER -> [code |-> 0, id |-> 0, status |-> "", from |-> ""]

\* the client has the answer; the request thread is free again
ResponseSent ==
    /\ req.pc \in {"status_sent", "stop_sent"}
    /\ req' = Idle
    /\ UNCHANGED <<runs, entry, file_meta, fs, wpc, cwd_before, cwd, life, crashes, arg, ret,
                   started>>

(***************************************************************************)
(* delete(id) of the Run Store (spec section 4.1): the entry leaves the    *)
(* index and store.delete_run_directory removes the workspace.  A worker   *)
(* that is still running keeps its reference to the dict.                  *)
(***************************************************************************)
DeleteRun(r) ==
    /\ req = Idle
    /\ r \in runs
    /\ \E fail \in SUBSET {"meta", "exports"} :
         /\ fs' = [fs EXCEPT ![r] = delete_run_directory(fs[r], fail)]
         /\ life' = [life EXCEPT ![r] = IF fs'[r].dir THEN "deleted_partial"
                                         ELSE "deleted_clean"]
    /\ runs' = runs \ {r}
    /\ entry' = [entry EXCEPT ![r] = IF wpc[r] \in {"none", "done"} THEN NoEntry ELSE @]
    /\ UNCHANGED <<file_meta, wpc, cwd_before, cwd, req, crashes, arg, ret, started>>

(***************************************************************************)
(* The process dies (all threads with it, nothing in memory survives) and  *)
(* is started again: store.py runs load_runs_from_disk() at import.        *)
(***************************************************************************)
Quiet(r) == wpc[r] \in {"none", "done"} /\ req.run # r

\* mutant of Restart: recovery starts a worker for every run it loads as QUEUED or
\* RUNNING
Restart_relaunching ==
    /\ crashes < MaxCrashes
    /\ crashes' = crashes + 1
    /\ ~load_raises(fs)
    /\ LET boot == load_runs_from_disk(fs)
           relaunched == {r \in boot.runs : boot.entry[r].status \in {"QUEUED", "RUNNING"}}
       IN  /\ runs' = boot.runs
           /\ entry' = boot.entry
           /\ fs' = boot.fs
           /\ wpc' = [r \in RunIds |-> IF r \in relaunched THEN "begin" ELSE "none"]
           /\ started' = [r \in RunIds |-> IF r \in relaunched THEN started[r] + 1
                                            ELSE started[r]]
    /\ file_meta' = {}
    /\ cwd_before' = [r \in RunIds |-> 0]
    /\ cwd' = 0
    /\ req' = Idle
    /\ life' = [r \in RunIds |-> IF life[r] = "creating" THEN "aborted" ELSE life[r]]
    /\ UNCHANGED <<arg, ret>>

Restart ==
    /\ crashes < MaxCrashes
    /\ crashes' = crashes + 1
    /\ ~load_raises(fs)
    /\ LET boot == load_runs_from_disk(fs)
       IN  /\ runs' = boot.runs
           /\ entry' = boot.entry
           /\ fs' = boot.fs
    /\ file_meta' = {}
    /\ wpc' = [r \in RunIds |-> "none"]
    /\ cwd_before' = [r \in RunIds |-> 0]
    /\ cwd' = 0
    /\ req' = Idle
    /\ life' = [r \in RunIds |->
                  CASE life[r] = "creating" -> "aborted"
                    [] life[r] = "created" /\ Quiet(r) /\ r \in runs
                       /\ fs[r].meta.state = "json" -> "recovered"
                    [] OTHER -> life[r]]
    /\ UNCHANGED <<arg, ret, started>>

Next ==
    \/ \E r \in RunIds : Worker(r)
    \/ \E f \in FileIds : Upload(f)
    \/ CreateNotFound
    \/ \E r \in RunIds : CreateInsert(r)
    \/ CreateOpen
    \/ CreateDump
    \/ CreateStart
    \/ CreateReturn
    \/ \E r \in RunIds : ReadNotFound(r)
    \/ \E r \in RunIds : ReadResolve(r)
    \/ ResolveOpen
    \/ ResolveDump
    \/ \E r \in RunIds : DeleteRun(r)
    \/ Restart

Spec == Init /\ [][Next]_vars

(***************************************************************************)
(* The server while its process stays up, with the handlers that src/ has: *)
(* every thread that can take a step eventually takes one (the worker      *)
(* threads are scheduled, the external training returns or raises, a       *)
(* handler that has begun runs to its end).                                *)
(***************************************************************************)
CreateSteps == CreateOpen \/ CreateDump \/ CreateStart \/ CreateReturn

NextLive ==
    \/ \E r \in RunIds : Worker(r)
    \/ \E f \in FileIds : Upload(f)
    \/ CreateNotFound
    \/ \E r \in RunIds : CreateInsert(r)
    \/ CreateSteps
    \/ \E r \in RunIds : ReadNotFound(r)
    \/ \E r \in RunIds : ReadResolve(r)
    \/ ResolveOpen
    \/ ResolveDump

SpecLive ==
    /\ Init
    /\ [][NextLive]_vars
    /\ \A r \in RunIds : WF_vars(Worker(r))
    /\ WF_vars(CreateSteps)

\* The same with the two handlers of main.py that answer without reading or
\* writing the store.
NextApp ==
    \/ Next
    \/ \E r \in RunIds : StatusRequest(r)
    \/ \E r \in RunIds : StopRequest(r)
    \/ ResponseSent

SpecApp == Init /\ [][NextApp]_vars

(***************************************************************************)
(* Properties of the run lifecycle.                                        *)
(***************************************************************************)

\* C1: for every run in the index, completedAt is set exactly when the status
\* is COMPLETED, FAILED or CANCELLED.
C1_CompletedAtIffTerminal ==
    \A r \in runs : (entry[r].completedAt # "None") <=> (entry[r].status \in Terminal)

\* C2: once a run's status is COMPLETED, FAILED or CANCELLED, no step (worker,
\* read, delete of another run, restart recovery) changes the status it shows.
C2_TerminalStatusIsFinal ==
    [][\A r \in runs \cap runs' :
         entry[r].status \in Terminal => entry'[r].status = entry[r].status]_vars

\* C3: when create_training_run hands the run to the worker, and when it returns,
\* the run is in the index under its identifier; at the hand-over the durable
\* record is a complete document with status QUEUED and the worker has not run.
C3_CreateReturnsQueuedRun ==
    /\ req.pc = "create_start" =>
         /\ req.run \in runs
         /\ entry[req.run].runId = req.run
         /\ entry[req.run].status = "QUEUED"
         /\ fs[req.run].meta.state = "json"
         /\ fs[req.run].meta.doc.status = "QUEUED"
         /\ fs[req.run].meta.doc.runId = req.run
         /\ wpc[req.run] = "none"
    /\ req.pc = "create_return" =>
         /\ req.run \in runs
         /\ entry[req.run].runId = req.run
         /\ fs[req.run].dir
         /\ fs[req.run].meta.state # "nofile"

\* C3 witness: the request is about to return, the record on disk says QUEUED
\* and the worker thread has not executed a statement yet.
C3_Witness ==
    /\ req.pc = "create_return"
    /\ wpc[req.run] = "begin"
    /\ fs[req.run].meta = JsonMeta(NewRunEntry(req.run))

\* C4: whenever the request thread is free to serve a read, every run of the
\* index has a durable record equal to its in-memory record.
C4_MemoryEqualsDurable ==
    req = Idle => \A r \in runs : fs[r].meta = JsonMeta(entry[r])

\* C5: a run whose creation request has returned, and that was not deleted, is in
\* the index of every later process.
C5_CreatedRunSurvivesCrash ==
    \A r \in RunIds : life[r] \in {"created", "recovered"} => r \in runs

\* C6: a restart taken when nothing is working on run r and r's run.json is a
\* complete document leaves r in the index with the same entry, field for field.
C6_RecoveryRoundTrip ==
    [][crashes' # crashes =>
         \A r \in runs :
            (Quiet(r) /\ fs[r].meta.state = "json") =>
               (r \in runs' /\ entry'[r] = entry[r])]_vars

\* C6 witness: a run that was created by a request, completed by its worker and
\* then went through a restart taken while nothing was working on it.
C6_Witness ==
    \E r \in runs :
       /\ life[r] = "recovered"
       /\ entry[r].status = "COMPLETED"
       /\ entry[r].metrics = "zeros"

\* C7: at a restart, a run directory without run.json yields an index entry keyed
\* by the directory name, COMPLETED with the Export Resolver's path when there is
\* one and UNKNOWN with no path otherwise, completedAt set only when COMPLETED,
\* and that entry is on disk when the restart is over.
C7_FallbackSynthesis ==
    [][crashes' # crashes =>
         \A r \in RunIds :
            (fs[r].dir /\ fs[r].meta.state = "nofile") =>
               LET p == latest_exported_model_path(r, fs[r])
               IN  /\ r \in runs'
                   /\ entry'[r].runId = r
                   /\ entry'[r].modelPath = p
                   /\ entry'[r].status = (IF p # NonePath THEN "COMPLETED" ELSE "UNKNOWN")
                   /\ (entry'[r].completedAt # "None" => entry'[r].status = "COMPLETED")
                   /\ fs'[r].meta = JsonMeta(entry'[r])]_vars

\* C7 witness: an entry that recovery synthesized as COMPLETED from a versioned
\* export.
C7_Witness ==
    \E r \in runs :
       /\ entry[r].createdAt = "mtime"
       /\ entry[r].status = "COMPLETED"
       /\ entry[r].modelPath.dir # <<>>
       /\ fs[r].meta = JsonMeta(entry[r])

\* C8: resolving a run's artifact twice in a row, nothing else happening in
\* between, returns the same path twice and the second call does not persist.
C8_ResolveIdempotent ==
    req = Idle =>
       \A r \in runs :
          LET first == resolve_model_path(entry[r], fs)
              second == resolve_model_path(first.run, fs)
          IN  second.path = first.path /\ ~second.persist

\* C8 witness: a created run whose modelPath was cached and persisted by a read
\* (the worker itself never finds a versioned export).
C8_Witness ==
    /\ req = Idle
    /\ \E r \in runs :
          /\ entry[r].createdAt = "t_create"
          /\ entry[r].modelPath.dir # <<>>
          /\ fs[r].meta = JsonMeta(entry[r])

\* C10: after a delete in which no removal failed, the run is not in the index
\* and its workspace directory does not exist, now and later.
C10_DeletedWorkspaceStaysGone ==
    \A r \in RunIds : life[r] = "deleted_clean" => (r \notin runs /\ ~fs[r].dir)

(***************************************************************************)
(* The Export Resolver on arbitrary export areas: the process starts on a  *)
(* runs directory that holds one run directory without run.json, whose     *)
(* exported_models area is any layout of at most MaxVDirs subdirectories,  *)
(* and recovery resolves its artifact.                                     *)
(***************************************************************************)
DirNames == {VERSION_1, VERSION_01, VERSION_2, VERSION_9, VERSION_10, CKPT}
FileSets == SUBSET {A_NAM, B_NAM, LOG_TXT}
VDirNameSets == {S \in SUBSET DirNames : Cardinality(S) <= MaxVDirs}

ExportLayouts ==
    {NoExports} \cup
    UNION {{[exists |-> TRUE, vdirs |-> {VDir(n, files[n]) : n \in S}, flat |-> flat] :
               files \in [S -> FileSets], flat \in SUBSET {C_NAM, LOG_TXT}} :
           S \in VDirNameSets}

InitExports ==
    /\ runs = {}
    /\ entry = [r \in RunIds |-> NoEntry]
    /\ file_meta = {}
    /\ \E lay \in ExportLayouts :
          fs = [r \in RunIds |->
                  IF r = 1 THEN [dir |-> TRUE, meta |-> NoMeta, inputs |-> FALSE, exp |-> lay]
                  ELSE NoDir]
    /\ wpc = [r \in RunIds |-> "none"]
    /\ cwd_before = [r \in RunIds |-> 0]
    /\ cwd = 0
    /\ req = Idle
    /\ life = [r \in RunIds |-> "unused"]
    /\ crashes = 0
    /\ arg = NoCall
    /\ ret = NoCall
    /\ started = [r \in RunIds |-> 0]

NextExports == Restart

SpecExports == InitExports /\ [][NextExports]_vars

\* The number a directory name of DirNames ends with, read off the name by hand
\* (-1: the name does not end with a digit).
VersionNumber(n) ==
    CASE n = VERSION_1 -> 1
      [] n = VERSION_01 -> 1
      [] n = VERSION_2 -> 2
      [] n = VERSION_9 -> 9
      [] n = VERSION_10 -> 10
      [] OTHER -> -1

\* d is the versioned subdirectory with the greatest number; among equal numbers
\* the greater name
IsHighestVersion(d, lay) ==
    /\ d \in lay.vdirs
    /\ VersionNumber(d.name) >= 0
    /\ \A e \in lay.vdirs \ {d} :
          \/ VersionNumber(e.name) < VersionNumber(d.name)
          \/ VersionNumber(e.name) = VersionNumber(d.name) /\ StrLess(e.name, d.name)

\* f is the first *.nam file of d in lexicographic order
IsFirstArtifact(f, d) ==
    /\ f \in d.files
    /\ EndsWithNam(f)
    /\ \A g \in d.files : (EndsWithNam(g) /\ g # f) => StrLess(f, g)

\* C9 (as stated): whenever the exports area has versioned subdirectories, the
\* resolved path is the first artifact of the one with the greatest number.
C9_AlwaysFromHighestVersion ==
    crashes > 0 =>
       \A d \in fs[1].exp.vdirs :
          IsHighestVersion(d, fs[1].exp) =>
             /\ entry[1].modelPath.run = 1
             /\ entry[1].modelPath.dir = d.name
             /\ IsFirstArtifact(entry[1].modelPath.file, d)

\* C9 (amended): whenever the versioned subdirectory with the greatest number
\* (compared as a number, ties broken by name) holds at least one artifact, the
\* resolved path is the lexicographically first artifact of that subdirectory.
C9_HighestVersionFirstArtifact ==
    crashes > 0 =>
       \A d \in fs[1].exp.vdirs :
          (IsHighestVersion(d, fs[1].exp) /\ \E f \in d.files : EndsWithNam(f)) =>
             /\ entry[1].modelPath.run = 1
             /\ entry[1].modelPath.dir = d.name
             /\ IsFirstArtifact(entry[1].modelPath.file, d)

\* C9 witness: v_9 and v_10 both hold artifacts, v_10 holds two, and the
\* resolved path is v_10/a.nam.
C9_Witness ==
    /\ crashes > 0
    /\ VDir(VERSION_9, {A_NAM}) \in fs[1].exp.vdirs
    /\ VDir(VERSION_10, {A_NAM, B_NAM}) \in fs[1].exp.vdirs
    /\ entry[1].modelPath = ExportPath(1, VERSION_10, A_NAM)

\* the path names a file that lies directly under exported_models
IsFlatPath(p, lay) == p # NonePath /\ p.dir = <<>> /\ p.file \in lay.flat

\* C21 (as stated): whenever the exports area has a versioned subdirectory, the
\* resolved path is a file of the highest-versioned one or None, never a file
\* directly under exported_models.
C21_NeverFlatWithVersions ==
    crashes > 0 =>
       \A d \in fs[1].exp.vdirs :
          IsHighestVersion(d, fs[1].exp) =>
             \/ entry[1].modelPath = NonePath
             \/ entry[1].modelPath.dir = d.name /\ entry[1].modelPath.file \in d.files

\* C21 (amended): whenever the exports area has a versioned subdirectory, the
\* resolved path is a file directly under exported_models only if the
\* highest-versioned subdirectory holds no artifact, and it is then the first
\* artifact directly under exported_models; with no artifact there either the
\* result is None.
C21_FlatOnlyWithoutVersionedArtifact ==
    crashes > 0 =>
       \A d \in fs[1].exp.vdirs :
          IsHighestVersion(d, fs[1].exp) =>
             /\ IsFlatPath(entry[1].modelPath, fs[1].exp) => GlobNam(d.files) = {}
             /\ GlobNam(d.files) = {} =>
                   IF GlobNam(fs[1].exp.flat) = {}
                   THEN entry[1].modelPath = NonePath
                   ELSE /\ IsFlatPath(entry[1].modelPath, fs[1].exp)
                        /\ entry[1].modelPath.file = SortedFirst(GlobNam(fs[1].exp.flat))
             /\ GlobNam(d.files) # {} =>
                   entry[1].modelPath.dir = d.name /\ entry[1].modelPath.file \in d.files

\* C21 witness: version_2 holds only a log, c.nam lies directly under
\* exported_models, and the resolved path is that flat file.
C21_Witness ==
    /\ crashes > 0
    /\ fs[1].exp.vdirs = {VDir(VERSION_2, {LOG_TXT})}
    /\ entry[1].modelPath = ExportPath(1, <<>>, C_NAM)

(***************************************************************************)
(* store.delete_run_directory, path by path.  The function is exercised on *)
(* its own: arg holds the run directory as it is when the function is      *)
(* called and the set of paths whose unlink/rmdir raises OSError for a     *)
(* reason of their own (a directory that is not empty fails in any case).  *)
(* A path is the sequence of its parts relative to the run directory; the  *)
(* empty sequence is the run directory itself.                             *)
(***************************************************************************)
MaxFail == 2

RUN_JSON == <<114, 117, 110, 46, 106, 115, 111, 110>>
INPUT_WAV == <<105, 110, 112, 117, 116, 46, 119, 97, 118>>
OUTPUT_WAV == <<111, 117, 116, 112, 117, 116, 46, 119, 97, 118>>
DI_WAV == <<100, 105, 46, 119, 97, 118>>
EXPORTED_MODELS == <<101, 120, 112, 111, 114, 116, 101, 100, 95, 109, 111, 100, 101, 108, 115>>

FileAt(p) == [path |-> p, kind |-> "file"]
DirAt(p) == [path |-> p, kind |-> "dir"]

\* run_dir.rglob("*"): every file and directory below the run directory
rglob(rd) ==
    (IF rd.meta.state # "nofile" THEN {FileAt(<<RUN_JSON>>)} ELSE {})
    \cup (IF rd.inputs
          THEN {FileAt(<<DI_WAV>>), FileAt(<<INPUT_WAV>>), FileAt(<<OUTPUT_WAV>>)}
          ELSE {})
    \cup (IF rd.exp.exists
          THEN {DirAt(<<EXPORTED_MODELS>>)}
               \cup {DirAt(<<EXPORTED_MODELS, d.name>>) : d \in rd.exp.vdirs}
               \cup UNION {{FileAt(<<EXPORTED_MODELS, d.name, f>>) : f \in d.files} :
                           d \in rd.exp.vdirs}
               \cup {FileAt(<<EXPORTED_MODELS, f>>) : f \in rd.exp.flat}
          ELSE {})

\* c lies below the directory p
IsBelow(c, p) == Len(c) > Len(p) /\ SubSeq(c, 1, Len(p)) = p

\* a set as a list, in the order the directory scan happens to produce
RECURSIVE ListOf(_)
ListOf(S) ==
    IF S = {} THEN <<>>
    ELSE LET x == CHOOSE y \in S : TRUE IN <<x>> \o ListOf(S \ {x})

\* sorted(..., key=lambda p: len(p.relative_to(run_dir).parts), reverse=True)
RECURSIVE DeepestFirst(_)
DeepestFirst(E) ==
    IF E = {} THEN <<>>
    ELSE LET deepest == {e \in E : \A o \in E : Len(o.path) <= Len(e.path)}
         IN  ListOf(deepest) \o DeepestFirst(E \ deepest)

\* unlink of a file, rmdir of a directory: does it succeed with `left` on disk
RemovalSucceeds(e, left, fail) ==
    /\ e.path \notin fail
    /\ e.kind = "dir" => ~\E c \in left : IsBelow(c.path, e.path)

\* mutant of delete_loop: the first OSError ends the loop
RECURSIVE delete_loop_aborting(_, _, _, _, _)
delete_loop_aborting(todo, left, removed, errors, fail) ==
    IF todo = <<>> THEN [left |-> left, removed |-> removed, errors |-> errors]
    ELSE LET e == Head(todo)
         IN  IF RemovalSucceeds(e, left, fail)
             THEN delete_loop_aborting(Tail(todo), left \ {e}, Append(removed, e.path),
                                       errors, fail)
             ELSE [left |-> left, removed |-> removed, errors |-> Append(errors, e.path)]

\* lines 80-90: the loop over the sorted paths
RECURSIVE delete_loop(_, _, _, _, _)
delete_loop(todo, left, removed, errors, fail) ==
    IF todo = <<>> THEN [left |-> left, removed |-> removed, errors |-> errors]
    ELSE LET e == Head(todo)
         IN  IF RemovalSucceeds(e, left, fail)
             THEN delete_loop(Tail(todo), left \ {e}, Append(removed, e.path), errors, fail)
             ELSE delete_loop(Tail(todo), left, removed, Append(errors, e.path), fail)

\* store.delete_run_directory: (removed_paths, errors) and what is left below
\* the run directory; an entry of errors is the message that names the path
delete_run_directory_lists(rd, fail) ==
    IF ~rd.dir THEN [left |-> {}, removed |-> <<>>, errors |-> <<>>, dir |-> FALSE]
    ELSE LET loop == delete_loop(DeepestFirst(rglob(rd)), rglob(rd), <<>>, <<>>, fail)
             rmdir_ok == RemovalSucceeds(DirAt(<<>>), loop.left, fail)
         IN  [left |-> loop.left,
              removed |-> IF rmdir_ok THEN Append(loop.removed, <<>>) ELSE loop.removed,
              errors |-> IF rmdir_ok THEN loop.errors ELSE Append(loop.errors, <<>>),
              dir |-> ~rmdir_ok]

\* the run directories the function is called on
DeleteWorkspaces ==
    {NoDir} \cup
    {[dir |-> TRUE, meta |-> m, inputs |-> i, exp |-> lay] :
        m \in {NoMeta, JsonMeta(NewRunEntry(1))}, i \in BOOLEAN, lay \in TrainLayouts}

AllPaths(rd) == {e.path : e \in rglob(rd)} \cup {<<>>}

InitDelete ==
    /\ Boot
    /\ \E rd \in DeleteWorkspaces :
          \E fail \in {F \in SUBSET AllPaths(rd) : Cardinality(F) <= MaxFail} :
             arg = [op |-> "delete", rd |-> rd, fail |-> fail]
    /\ ret = NoCall

DeleteCall ==
    /\ arg.op = "delete"
    /\ ret = NoCall
    /\ ret' = [op |-> "delete"] @@ delete_run_directory_lists(arg.rd, arg.fail)
    /\ UNCHANGED <<server, arg>>

NextDelete == DeleteCall

SpecDelete == InitDelete /\ [][NextDelete]_vars

\* the N files and M subdirectories of the workspace
FilesBelow(rd) == {e \in rglob(rd) : e.kind = "file"}
DirsBelow(rd) == {e \in rglob(rd) : e.kind = "dir"}
Occurrences(list, x) == Cardinality({i \in DOMAIN list : list[i] = x})

\* C11 (as stated): the two lists have N+M entries together, N+M removed paths
\* when nothing failed, and every path under the workspace is in exactly one list.
C11_ListsCountNPlusM ==
    (ret.op = "delete" /\ arg.rd.dir) =>
       LET n_plus_m == Cardinality(FilesBelow(arg.rd)) + Cardinality(DirsBelow(arg.rd))
       IN  /\ Len(ret.removed) + Len(ret.errors) = n_plus_m
           /\ ret.errors = <<>> => Len(ret.removed) = n_plus_m
           /\ \A e \in rglob(arg.rd) :
                 Occurrences(ret.removed, e.path) + Occurrences(ret.errors, e.path) = 1

\* C11 (amended): for an existing workspace the two lists have N+M+1 entries
\* together, the workspace directory itself being one of them; N+M+1 removed
\* paths and no error when no removal fails; every path under the workspace and
\* the workspace directory are each in exactly one list, a path in the removed
\* list exactly when it is gone.  A workspace that does not exist gives two
\* empty lists.
C11_ListsCountWorkspaceToo ==
    ret.op = "delete" =>
       LET n_plus_m == Cardinality(FilesBelow(arg.rd)) + Cardinality(DirsBelow(arg.rd))
       IN  IF arg.rd.dir
           THEN /\ Len(ret.removed) + Len(ret.errors) = n_plus_m + 1
                /\ arg.fail = {} => (ret.errors = <<>> /\ Len(ret.removed) = n_plus_m + 1)
                /\ \A p \in AllPaths(arg.rd) :
                      /\ Occurrences(ret.removed, p) + Occurrences(ret.errors, p) = 1
                      /\ Occurrences(ret.removed, p) = 1 <=>
                            (IF p = <<>> THEN ~ret.dir
                             ELSE ~\E e \in ret.left : e.path = p)
           ELSE ret.removed = <<>> /\ ret.errors = <<>>

\* C11 witness: a workspace with a versioned export where the removal of one
\* artifact fails, so that its directory, exported_models and the workspace
\* cannot be removed either: four errors, the rest removed.
C11_Witness ==
    /\ ret.op = "delete"
    /\ arg.rd.exp = LayVersioned
    /\ arg.rd.inputs
    /\ arg.fail = {<<EXPORTED_MODELS, VERSION_2, B_NAM>>}
    /\ Len(ret.errors) = 4
    /\ Len(ret.removed) >= 5

(***************************************************************************)
(* routes_training.list_training_runs on its own: the items it returns for *)
(* an index (the dicts of store.runs in insertion order), a status filter  *)
(* ("None" when the query parameter is absent) and a limit.  createdAt is  *)
(* a number or None.  The artifact resolution done for each item is the    *)
(* one of ReadResolve and does not change which items are returned.        *)
(***************************************************************************)
MaxIndex == 2
MaxLimit == 2

Time(t) == [set |-> TRUE, t |-> t]
NoneTime == [set |-> FALSE, t |-> 0]

\* key=lambda r: r.get("createdAt", 0) or 0
CreatedKey(run) == IF run.createdAt.set THEN run.createdAt.t ELSE 0

\* one step of the stable descending sort: run goes behind every element whose
\* key is not smaller
StableInsert(sorted, run) ==
    LET k == Cardinality({i \in DOMAIN sorted : CreatedKey(sorted[i]) >= CreatedKey(run)})
    IN  SubSeq(sorted, 1, k) \o <<run>> \o SubSeq(sorted, k + 1, Len(sorted))

\* sorted(runs.values(), key=..., reverse=True)
RECURSIVE SortedByCreatedDesc(_)
SortedByCreatedDesc(index) ==
    IF index = <<>> THEN <<>>
    ELSE StableInsert(SortedByCreatedDesc(SubSeq(index, 1, Len(index) - 1)),
                      index[Len(index)])

\* `if status and run.get("status") != status: continue`
SkippedByFilter(run, status) == status \notin {"None", ""} /\ run.status # status

\* lines 184-211: the loop that fills items
RECURSIVE list_loop(_, _, _, _)
list_loop(sorted_runs, items, status, limit) ==
    IF sorted_runs = <<>> THEN items
    ELSE LET run == Head(sorted_runs)
         IN  IF SkippedByFilter(run, status)
             THEN list_loop(Tail(sorted_runs), items, status, limit)
             ELSE IF Len(items) + 1 >= limit THEN Append(items, run)
             ELSE list_loop(Tail(sorted_runs), Append(items, run), status, limit)

list_training_runs(index, status, limit) ==
    list_loop(SortedByCreatedDesc(index), <<>>, status, limit)

ListedRuns ==
    {[status |-> st, createdAt |-> c] :
        st \in {"QUEUED", "COMPLETED"}, c \in {NoneTime, Time(1), Time(2)}}

\* an index of n runs; the run in position i has identifier i
Indexes ==
    UNION {{[i \in 1..n |-> [runId |-> i, status |-> f[i].status,
                             createdAt |-> f[i].createdAt]] :
               f \in [1..n -> ListedRuns]} : n \in 0..MaxIndex}

InitList ==
    /\ Boot
    /\ \E index \in Indexes, status \in {"None", "", "QUEUED", "COMPLETED"},
          limit \in 0..MaxLimit :
             arg = [op |-> "list", index |-> index, status |-> status, limit |-> limit]
    /\ ret = NoCall

ListCall ==
    /\ arg.op = "list"
    /\ ret = NoCall
    /\ ret' = [op |-> "list", items |-> list_training_runs(arg.index, arg.status, arg.limit)]
    /\ UNCHANGED <<server, arg>>

NextList == ListCall

SpecList == InitList /\ [][NextList]_vars

\* the runs of the index that the request asks for (an empty filter asks for all)
Matching(index, status) ==
    {i \in DOMAIN index : status \in {"None", ""} \/ index[i].status = status}

\* C12: the items are min(limit, number of matching runs) different matching
\* runs, in descending createdAt order, and no matching run that was left out is
\* newer than a returned one; never more than limit items.
C12_ListIsLimitedPrefix ==
    ret.op = "list" =>
       LET items == ret.items
           match == Matching(arg.index, arg.status)
           wanted == IF arg.limit < Cardinality(match) THEN arg.limit ELSE Cardinality(match)
       IN  /\ Len(items) = wanted
           /\ Len(items) <= arg.limit
           /\ \A i \in DOMAIN items :
                 items[i].runId \in match /\ items[i] = arg.index[items[i].runId]
           /\ \A i, j \in DOMAIN items :
                 i < j => (items[i].runId # items[j].runId
                           /\ CreatedKey(items[i]) >= CreatedKey(items[j]))
           /\ \A m \in match :
                 (\A i \in DOMAIN items : items[i].runId # m) =>
                    \A i \in DOMAIN items : CreatedKey(items[i]) >= CreatedKey(arg.index[m])

(***************************************************************************)
(* Properties of the assembled application and of the orchestrator.        *)
(***************************************************************************)

\* C13: the answer to a status request is the Run Store's record of that
\* identifier when the identifier is in the index, and NotFound otherwise.
C13_StatusIsStoreRecord ==
    req.pc = "status_sent" =>
       IF req.run \in runs
       THEN /\ Response.code = 200
            /\ Response.from = "store"
            /\ Response.id = entry[req.run].runId
            /\ Response.status = entry[req.run].status
       ELSE Response.code = 404

\* C14: a stop request for a run of the index whose status is QUEUED or RUNNING
\* leaves the run CANCELLED, with completedAt set and the record on disk.
C14_StopCancelsRun ==
    [][\A r \in runs :
         (req = Idle /\ req'.pc = "stop_sent" /\ req'.run = r
          /\ entry[r].status \in {"QUEUED", "RUNNING"}) =>
            /\ entry'[r].status = "CANCELLED"
            /\ entry'[r].completedAt # "None"
            /\ fs'[r].meta = JsonMeta(entry'[r])]_vars

\* C15: no run identifier ever has more than one worker thread started for it:
\* a run whose creation request returned had exactly one, started by that
\* request, and a worker thread exists only for a run that had its one start;
\* restarts and failures add none.
C15_OneOrchestratorPerRun ==
    \A r \in RunIds :
       /\ started[r] <= 1
       /\ wpc[r] # "none" => started[r] = 1
       /\ life[r] \in {"created", "recovered"} => started[r] = 1

\* C15 witness: after a restart the index holds a run that its worker had left
\* QUEUED or RUNNING; no worker thread exists for it and it had its one start.
C15_Witness ==
    /\ crashes > 0
    /\ req = Idle
    /\ \E r \in runs :
          /\ entry[r].status \in {"QUEUED", "RUNNING"}
          /\ wpc[r] = "none"
          /\ started[r] = 1

(***************************************************************************)
(* routes_files.detect_latency, lines 117-145, on its own: the decoded     *)
(* first channels x and y and their sample rates are the arguments.        *)
(* Samples are integers and the arithmetic is exact (the rounding of       *)
(* float32 is not modelled): a mean-removed signal of n samples is kept    *)
(* multiplied by n, which scales every correlation value by n*n and leaves *)
(* the position of the maximum where it is.                                *)
(***************************************************************************)
MaxSignal == 3

Samples == {-1, 0, 1}
SampleRates == {44100, 48000}
Signals == UNION {[1..n -> Samples] : n \in 1..MaxSignal}

Abs(v) == IF v < 0 THEN -v ELSE v

RECURSIVE SumSeq(_)
SumSeq(seq) == IF seq = <<>> THEN 0 ELSE Head(seq) + SumSeq(Tail(seq))

\* x - np.mean(x), times len(x)
RemoveMean(x) == [i \in 1..Len(x) |-> Len(x) * x[i] - SumSeq(x)]

\* np.correlate(a, v, mode="full") for two arrays of the same length n:
\* element j (from 1) is the sum of a[i + lag] * v[i] with lag = j - n
np_correlate(a, v) ==
    LET n == Len(a)
    IN  [j \in 1..(2 * n - 1) |->
           SumSeq([i \in 1..(n - Abs(j - n)) |->
                     IF j >= n THEN a[i + (j - n)] * v[i]
                     ELSE a[i] * v[i + (n - j)]])]

\* int(np.argmax(np.abs(corr))): the first position of the maximum, from 0
argmax_abs(corr) ==
    (CHOOSE j \in DOMAIN corr :
        /\ \A i \in DOMAIN corr : Abs(corr[i]) <= Abs(corr[j])
        /\ \A i \in 1..(j - 1) : Abs(corr[i]) < Abs(corr[j])) - 1

\* mutant of latency_from: the lag is reported as it is, without the clamp
latency_from_unclamped(corr, n) ==
    LET max_idx == argmax_abs(corr)
        lag == max_idx - (n - 1)
    IN  [code |-> 200, latencySamples |-> lag]

\* lines 137-144, from the correlation to the reported latency
latency_from(corr, n) ==
    LET max_idx == argmax_abs(corr)
        lag == max_idx - (n - 1)
    IN  [code |-> 200, latencySamples |-> IF lag > 0 THEN lag ELSE 0]

\* mutant of detect_latency: the two signals are passed to np.correlate in the
\* other order
detect_latency_swapped(x, sr_x, y, sr_y) ==
    IF sr_x # sr_y THEN [code |-> 400, latencySamples |-> 0]
    ELSE LET n == IF Len(x) < Len(y) THEN Len(x) ELSE Len(y)
             xm == RemoveMean(SubSeq(x, 1, n))
             ym == RemoveMean(SubSeq(y, 1, n))
         IN  latency_from(np_correlate(xm, ym), n)

detect_latency(x, sr_x, y, sr_y) ==
    IF sr_x # sr_y THEN [code |-> 400, latencySamples |-> 0]
    ELSE LET n == IF Len(x) < Len(y) THEN Len(x) ELSE Len(y)
             xm == RemoveMean(SubSeq(x, 1, n))
             ym == RemoveMean(SubSeq(y, 1, n))
         IN  latency_from(np_correlate(ym, xm), n)

InitLatency ==
    /\ Boot
    /\ \E x \in Signals, y \in Signals, sr_y \in SampleRates :
          arg = [op |-> "latency", x |-> x, sr_x |-> 48000, y |-> y, sr_y |-> sr_y]
    /\ ret = NoCall

LatencyCall ==
    /\ arg.op = "latency"
    /\ ret = NoCall
    /\ ret' = [op |-> "latency"] @@ detect_latency(arg.x, arg.sr_x, arg.y, arg.sr_y)
    /\ UNCHANGED <<server, arg>>

NextLatency == LatencyCall

SpecLatency == InitLatency /\ [][NextLatency]_vars

\* x delayed by k samples, at the length of x: zeros, then the start of x
Delayed(x, k) == [i \in 1..Len(x) |-> IF i > k THEN x[i - k] ELSE 0]

\* the cross-correlation of the mean-removed signals at one lag, by its formula
XCorrAt(x, y, lag) ==
    LET n == Len(x)
        xm == RemoveMean(x)
        ym == RemoveMean(y)
    IN  SumSeq([i \in 1..n |->
                  IF i + lag >= 1 /\ i + lag <= n THEN ym[i + lag] * xm[i] ELSE 0])

PeakOnlyAt(x, y, k) ==
    \A lag \in (1 - Len(x))..(Len(x) - 1) :
       lag # k => Abs(XCorrAt(x, y, lag)) < Abs(XCorrAt(x, y, k))

\* C16 (as stated): whenever the output is the input delayed by k samples at the
\* same rate, the reported latency is k.
C16_DelayedCopyGivesDelay ==
    (ret.op = "latency" /\ arg.sr_x = arg.sr_y) =>
       \A k \in 0..(Len(arg.x) - 1) :
          arg.y = Delayed(arg.x, k) => (ret.code = 200 /\ ret.latencySamples = k)

\* C16 (amended): identical signals give latency 0 for every signal; an output
\* that is the input delayed by k gives latency k whenever the magnitude of the
\* cross-correlation of the two mean-removed signals is greater at lag k than at
\* every other lag.
C16_DelayWhenPeakIsUnique ==
    (ret.op = "latency" /\ arg.sr_x = arg.sr_y) =>
       /\ arg.y = arg.x => (ret.code = 200 /\ ret.latencySamples = 0)
       /\ \A k \in 0..(Len(arg.x) - 1) :
             (arg.y = Delayed(arg.x, k) /\ PeakOnlyAt(arg.x, arg.y, k)) =>
                (ret.code = 200 /\ ret.latencySamples = k)

\* C16 witness: an impulse and the same impulse one sample later.
C16_Witness ==
    /\ ret.op = "latency"
    /\ arg.sr_x = arg.sr_y
    /\ arg.x = <<1, 0, 0>>
    /\ arg.y = Delayed(arg.x, 1)
    /\ PeakOnlyAt(arg.x, arg.y, 1)
    /\ ret.latencySamples = 1

(***************************************************************************)
(* audio_io.repair_audio_in_place on its own.  The file at `path` is       *)
(* missing, undecodable, or audio with a number of channels, a sample rate *)
(* and the samples of its first channel.  Sample values are integers in    *)
(* units of the tolerance of the silence check (atol = 1e-8), the silence  *)
(* duration is a whole number of seconds.  The result says whether the     *)
(* file was written and what it holds afterwards.  sf.write(path, data,    *)
(* rate) stores the samples in the default encoding of the format (16-bit  *)
(* PCM for WAV), whose step is coarser than the tolerance; the step is     *)
(* scaled down to Quantum tolerance units, and the sample values are       *)
(* chosen so that some are multiples of it and some are not.  Samples stay *)
(* inside full scale.                                                      *)
(***************************************************************************)
MaxAudio == 3
Atol == 1
Quantum == 3

AudioSamples == {-2, 0, 1, 3}
AudioRates == {5, 10, 20}
AudioData == UNION {[1..n -> AudioSamples] : n \in 0..MaxAudio}

AudioFile(channels, rate, data) ==
    [kind |-> "audio", channels |-> channels, rate |-> rate, data |-> data]
OtherFile(kind) == [kind |-> kind, channels |-> 0, rate |-> 0, data |-> <<>>]

Zeros(n) == [i \in 1..n |-> 0]

\* np.allclose(a, 0.0, atol=1e-8): every |a[i]| <= atol
allclose_zero(a) == \A i \in DOMAIN a : Abs(a[i]) <= Atol

\* the value a sample has after it was stored by sf.write and decoded again:
\* the nearest multiple of the step
Quantize(v) == Quantum * ((2 * v + Quantum) \div (2 * Quantum))

\* sf.write(path, data, rate) followed by a later sf.read
sf_write(data) == [i \in DOMAIN data |-> Quantize(data[i])]

\* mutant of repair_audio_in_place: the silence put in front is one sample shorter
\* than the window that the check looks at
repair_audio_short_silence(file, target_rate, silence_dur) ==
    IF file.kind # "audio" THEN [written |-> FALSE, file |-> file]
    ELSE LET stereo == file.channels > 1
             data == file.data
             tenth == file.rate \div 10
             first_samples == IF tenth < Len(data) THEN tenth ELSE Len(data)
             loud == first_samples > 0 /\ ~allclose_zero(SubSeq(data, 1, first_samples))
             out == IF loud THEN Zeros(tenth - 1) \o data ELSE data
             modified == stereo \/ loud
         IN  [written |-> modified,
              file |-> IF modified THEN AudioFile(1, file.rate, sf_write(out)) ELSE file]

\* mutant of repair_audio_in_place: the silence check looks at the whole file
repair_audio_whole_file(file, target_rate, silence_dur) ==
    IF file.kind # "audio" THEN [written |-> FALSE, file |-> file]
    ELSE LET stereo == file.channels > 1
             data == file.data
             loud == Len(data) > 0 /\ ~allclose_zero(data)
             out == IF loud THEN Zeros(file.rate * silence_dur) \o data ELSE data
             modified == stereo \/ loud
         IN  [written |-> modified,
              file |-> IF modified THEN AudioFile(1, file.rate, sf_write(out)) ELSE file]

repair_audio_in_place(file, target_rate, silence_dur) ==
    IF file.kind # "audio" THEN [written |-> FALSE, file |-> file]
    ELSE LET stereo == file.channels > 1
             data == file.data
             tenth == file.rate \div 10
             first_samples == IF tenth < Len(data) THEN tenth ELSE Len(data)
             loud == first_samples > 0 /\ ~allclose_zero(SubSeq(data, 1, first_samples))
             out == IF loud THEN Zeros(file.rate * silence_dur) \o data ELSE data
             modified == stereo \/ loud
         IN  [written |-> modified,
              file |-> IF modified THEN AudioFile(1, file.rate, sf_write(out)) ELSE file]

AudioFiles ==
    {OtherFile("missing"), OtherFile("undecodable")} \cup
    {AudioFile(c, r, d) : c \in {1, 2}, r \in AudioRates, d \in AudioData}

InitRepair ==
    /\ Boot
    /\ \E file \in AudioFiles, silence_dur \in {1, 2} :
          arg = [op |-> "repair", file |-> file, target_rate |-> 48000,
                 silence_dur |-> silence_dur]
    /\ ret = NoCall

RepairCall ==
    /\ arg.op = "repair"
    /\ ret = NoCall
    /\ ret' = [op |-> "repair"]
              @@ repair_audio_in_place(arg.file, arg.target_rate, arg.silence_dur)
    /\ UNCHANGED <<server, arg>>

\* the same call once more on the file that the first call left
RepairAgain ==
    /\ arg.op = "repair"
    /\ ret.op = "repair"
    /\ ret' = [op |-> "again", first |-> ret.file]
              @@ repair_audio_in_place(ret.file, arg.target_rate, arg.silence_dur)
    /\ UNCHANGED <<server, arg>>

NextRepair == RepairCall \/ RepairAgain

SpecRepair == InitRepair /\ [][NextRepair]_vars

\* the samples of the first 0.1 s of a file
FirstTenth(file) ==
    {file.data[i] : i \in {j \in DOMAIN file.data : 10 * j <= file.rate}}

LoudStart(file) == \E v \in FirstTenth(file) : Abs(v) > Atol

\* the file after the call is the file before it, as sf.write stores it, with the
\* silence in front
SilencePrepended(before, after, seconds) ==
    /\ after.kind = "audio"
    /\ after.rate = before.rate
    /\ Len(after.data) = Len(before.data) + seconds * before.rate
    /\ \A i \in DOMAIN after.data :
          after.data[i] = IF i <= seconds * before.rate THEN 0
                          ELSE Quantize(before.data[i - seconds * before.rate])

\* C17 (as stated): a mono file with a sample above the tolerance in its first
\* 0.1 s is not written; one whose first 0.1 s is all at or below the tolerance
\* gets the silence prepended.
C17_SilentStartGetsSilence ==
    (ret.op = "repair" /\ arg.file.kind = "audio" /\ arg.file.channels = 1) =>
       IF LoudStart(arg.file)
       THEN ~ret.written /\ ret.file = arg.file
       ELSE ret.written /\ SilencePrepended(arg.file, ret.file, arg.silence_dur)

\* C17 (amended): a mono file with a sample above the tolerance in its first
\* 0.1 s gets silence_dur * sample_rate zero samples prepended; one whose first
\* 0.1 s is all at or below the tolerance is not written.
C17_LoudStartGetsSilence ==
    (ret.op = "repair" /\ arg.file.kind = "audio" /\ arg.file.channels = 1) =>
       IF LoudStart(arg.file)
       THEN ret.written /\ SilencePrepended(arg.file, ret.file, arg.silence_dur)
       ELSE ~ret.written /\ ret.file = arg.file

\* C17 witness: a mono file at 20 Hz whose second sample is above the tolerance
\* comes back with 40 zeros in front of its three samples.
C17_Witness ==
    /\ ret.op = "repair"
    /\ arg.file = AudioFile(1, 20, <<1, -2, 0>>)
    /\ arg.silence_dur = 2
    /\ ret.written
    /\ Len(ret.file.data) = 43
    /\ ret.file.data[40] = 0
    /\ ret.file.data[42] = -3

\* C18: while the process is up, a worker that raised goes through its except
\* branch: that step sets status FAILED and the error message and leaves
\* modelPath alone, the worker then ends normally, and when it ends the run.json
\* of a run of the index is the FAILED record with the message; a worker thread
\* ends only after a persist or because its run has no entry.
C18_FailureIsRecorded ==
    [][crashes' = crashes =>
         \A r \in RunIds :
            /\ (wpc[r] = "except" /\ wpc'[r] # "except") =>
                  /\ wpc'[r] = "fail_open"
                  /\ entry'[r].status = "FAILED"
                  /\ entry'[r].error = "msg"
                  /\ entry'[r].modelPath = entry[r].modelPath
            /\ (wpc[r] = "fail_dump" /\ wpc'[r] # "fail_dump") =>
                  /\ wpc'[r] = "done"
                  /\ r \in runs' =>
                        /\ entry'[r].status = "FAILED"
                        /\ entry'[r].error = "msg"
                        /\ fs'[r].meta = JsonMeta(entry'[r])
            /\ (wpc[r] # "done" /\ wpc'[r] = "done") =>
                  wpc[r] \in {"begin", "comp_dump", "fail_dump"}]_vars

\* C18 witness: the worker of a run of the index has ended after a failure; the
\* record in memory and on disk is FAILED with the message and without a
\* modelPath.
C18_Witness ==
    \E r \in runs :
       /\ wpc[r] = "done"
       /\ entry[r].status = "FAILED"
       /\ entry[r].error = "msg"
       /\ entry[r].modelPath = NonePath
       /\ fs[r].meta = JsonMeta(entry[r])

\* C19: while the process stays up and the threads are scheduled, every run that
\* a create request put in the index eventually has status COMPLETED or FAILED.
C19_CreatedRunEnds ==
    \A r \in RunIds :
       (r \in runs /\ life[r] \in {"creating", "created"})
          ~> (entry[r].status \in {"COMPLETED", "FAILED"})

\* C19 witness: a run whose creation request returned and whose worker ended
\* with COMPLETED, the process never having restarted.
C19_Witness ==
    /\ crashes = 0
    /\ \E r \in runs :
          /\ life[r] = "created"
          /\ wpc[r] = "done"
          /\ entry[r].status = "COMPLETED"

(***************************************************************************)
(* Recovery on arbitrary runs directories: load_runs_from_disk() on        *)
(* MaxDirs run directories, each absent or present with run.json absent,   *)
(* empty, not a dict, or a record (with or without its runId key), and     *)
(* with or without exported models.                                        *)
(***************************************************************************)
MaxDirs == 2
Dirs == 1 .. MaxDirs

RecordsOf(r) == {JsonMeta(NewRunEntry(r)), JsonMeta([NewRunEntry(r) EXCEPT !.runId = 0])}

DirStates(r) ==
    {NoDir} \cup
    {[dir |-> TRUE, meta |-> meta, inputs |-> FALSE, exp |-> exp] :
        meta \in {NoMeta, TruncMeta, NotDictMeta} \cup RecordsOf(r),
        exp \in {NoExports, LayVersioned}}

Disks == {disk \in [Dirs -> UNION {DirStates(r) : r \in Dirs}] :
             \A r \in Dirs : disk[r] \in DirStates(r)}

InitRecovery ==
    /\ Boot
    /\ \E disk \in Disks : arg = [op |-> "recover", disk |-> disk]
    /\ ret = NoCall

RecoveryCall ==
    /\ arg.op = "recover"
    /\ ret = NoCall
    /\ ret' = IF load_raises(arg.disk)
              THEN [op |-> "recover", raised |-> TRUE, runs |-> {}]
              ELSE [op |-> "recover", raised |-> FALSE,
                    runs |-> load_runs_from_disk(arg.disk).runs]
    /\ UNCHANGED <<server, arg>>

NextRecovery == RecoveryCall

SpecRecovery == InitRecovery /\ [][NextRecovery]_vars

\* run.json is there and is not a run record: an empty or cut-off file, or a JSON
\* document that is not an object
Unparsable(rd) == rd.dir /\ rd.meta.state \in {"trunc", "notdict"}

\* C20: recovery does not raise, and the index it builds holds exactly the run
\* directories whose run.json is a record or is missing.
C20_RecoverySkipsUnparsable ==
    ret.op = "recover" =>
       /\ ~ret.raised
       /\ ret.runs = {r \in Dirs : arg.disk[r].dir /\ ~Unparsable(arg.disk[r])}

\* C22: while the process is up, for a run of the index: (a) a modelPath whose
\* file still exists after a step is not replaced by that step, whichever thread
\* takes it; (b) when the worker has ended and no request is in progress, run.json
\* is the complete document of the in-memory record and the status is the
\* worker's last one.
C22_CacheFillSafe ==
    [][crashes' = crashes =>
         \A r \in runs' :
            /\ (entry[r].modelPath # NonePath /\ PathExists(entry[r].modelPath, fs')) =>
                  entry'[r].modelPath = entry[r].modelPath
            /\ (life'[r] = "created" /\ wpc'[r] = "done" /\ req' = Idle) =>
                  /\ fs'[r].meta = JsonMeta(entry'[r])
                  /\ entry'[r].status \in {"COMPLETED", "FAILED"}]_vars

\* C25: the worker's persist of the COMPLETED record writes a document whose
\* modelPath is what latest_exported_model_path finds in the run directory,
\* whenever it finds something.
C25_CompletedRecordHasResolvedPath ==
    [][crashes' = crashes =>
         \A r \in runs' :
            (/\ wpc[r] = "comp_dump"
             /\ wpc'[r] = "done"
             /\ latest_exported_model_path(r, fs[r]) # NonePath) =>
               /\ fs'[r].meta.state = "json"
               /\ json_loads(fs'[r].meta.doc).status = "COMPLETED"
               /\ json_loads(fs'[r].meta.doc).modelPath
                     = latest_exported_model_path(r, fs[r])]_vars

(***************************************************************************)
(* Two runs whose create requests have returned: both are in the index     *)
(* with their QUEUED record on disk, both worker threads are started and   *)
(* neither has run yet.  From there only the two workers take steps, in    *)
(* any order.                                                              *)
(***************************************************************************)
TwoRuns == {1, 2}

InitTwoRuns ==
    /\ runs = TwoRuns
    /\ entry = [r \in TwoRuns |-> NewRunEntry(r)]
    /\ file_meta = FileIds
    /\ fs = [r \in TwoRuns |->
               [dir |-> TRUE, meta |-> JsonMeta(NewRunEntry(r)), inputs |-> FALSE,
                exp |-> NoExports]]
    /\ wpc = [r \in TwoRuns |-> "begin"]
    /\ cwd_before = [r \in TwoRuns |-> 0]
    /\ cwd = 0
    /\ req = Idle
    /\ life = [r \in TwoRuns |-> "created"]
    /\ crashes = 0
    /\ arg = NoCall
    /\ ret = NoCall
    /\ started = [r \in TwoRuns |-> 1]

NextTwoRuns == \E r \in TwoRuns : Worker(r)

SpecTwoRuns == InitTwoRuns /\ [][NextTwoRuns]_vars

\* C23: the training call of run r runs with RUNS_DIR/r as the working directory
\* and changes nothing in the other run's directory, and when both workers have
\* ended the process is back in the directory it started in.
C23_RunsDoNotContend ==
    [][/\ \A r \in TwoRuns :
             (wpc[r] = "train" /\ wpc'[r] # "train") =>
                /\ cwd = r
                /\ \A q \in TwoRuns \ {r} : fs'[q] = fs[q]
       /\ (\A r \in TwoRuns : wpc'[r] = "done") => cwd' = 0]_vars

\* C28: repairing a file a second time leaves it as the first repair left it.
C28_RepairIdempotent ==
    ret.op = "again" => ret.file = ret.first

\* C28 witness: a stereo file with a loud start was rewritten by the first call
\* (mono, silence in front) and the second call did not write it.
C28_Witness ==
    /\ ret.op = "again"
    /\ arg.file.kind = "audio"
    /\ arg.file.channels = 2
    /\ LoudStart(arg.file)
    /\ ret.first # arg.file
    /\ ~ret.written
    /\ ret.file = ret.first

(***************************************************************************)
(* Workspace preparation, training_worker.py lines 64-78, on the two       *)
(* stored uploads of a run: what the uploads hold afterwards and what the  *)
(* three files of the run directory hold.  shutil.copy2 copies the bytes   *)
(* and raises when its source is missing.                                  *)
(***************************************************************************)
NotCopied == OtherFile("missing")

prepare_workspace(in_file, out_file) ==
    LET in_path == repair_audio_in_place(in_file, 48000, 1).file      \* line 64
        out_path == repair_audio_in_place(out_file, 48000, 1).file    \* line 65
        in_copied == in_path.kind # "missing"
        out_copied == in_copied /\ out_path.kind # "missing"
    IN  [in_upload |-> in_path, out_upload |-> out_path,
         di_target |-> IF in_copied THEN in_path ELSE NotCopied,
         input_wav |-> IF in_copied THEN in_path ELSE NotCopied,
         output_wav |-> IF out_copied THEN out_path ELSE NotCopied,
         raised |-> ~out_copied]

OutputFiles ==
    {OtherFile("missing"), OtherFile("undecodable"),
     AudioFile(1, 10, <<0, 3>>), AudioFile(2, 10, <<3, 0>>)}

InitPrepare ==
    /\ Boot
    /\ \E in_file \in AudioFiles, out_file \in OutputFiles :
          arg = [op |-> "prepare", in_file |-> in_file, out_file |-> out_file]
    /\ ret = NoCall

PrepareCall ==
    /\ arg.op = "prepare"
    /\ ret = NoCall
    /\ ret' = [op |-> "prepare"] @@ prepare_workspace(arg.in_file, arg.out_file)
    /\ UNCHANGED <<server, arg>>

NextPrepare == PrepareCall

SpecPrepare == InitPrepare /\ [][NextPrepare]_vars

\* C24: preparation leaves the two stored uploads as they were, and when it does
\* not raise the run directory holds the repaired copies of them.
C24_UploadsUntouched ==
    ret.op = "prepare" =>
       /\ ret.in_upload = arg.in_file
       /\ ret.out_upload = arg.out_file
       /\ ~ret.raised =>
             /\ ret.input_wav = repair_audio_in_place(arg.in_file, 48000, 1).file
             /\ ret.di_target = ret.input_wav
             /\ ret.output_wav = repair_audio_in_place(arg.out_file, 48000, 1).file

\* the two documents agree on every key except modelPath
SameButModelPath(d1, d2) ==
    [d1 EXCEPT !.modelPath = JString(NonePath)] = [d2 EXCEPT !.modelPath = JString(NonePath)]

\* C26: a read changes nothing in memory except the modelPath of the run it
\* resolves, and that only from None or from a path whose file is missing to what
\* latest_exported_model_path finds; and the document a read writes to run.json
\* agrees with the one that was there when the read began on every key except
\* modelPath (stated for reads during which the run's worker took no step).
C26_ReadsOnlyCacheModelPath ==
    [][crashes' = crashes =>
         /\ (req.pc = "idle" /\ req'.pc = "resolve_open") =>
               /\ fs' = fs
               /\ runs' = runs
               /\ \A q \in RunIds :
                     /\ entry'[q] = [entry[q] EXCEPT !.modelPath = entry'[q].modelPath]
                     /\ entry'[q].modelPath # entry[q].modelPath =>
                           /\ q = req'.run
                           /\ \/ entry[q].modelPath = NonePath
                              \/ ~PathExists(entry[q].modelPath, fs)
                           /\ entry'[q].modelPath = latest_exported_model_path(q, fs[q])
         /\ (/\ req.pc = "resolve_dump"
             /\ req'.pc = "idle"
             /\ req.worker = wpc[req.run]
             /\ req.disk.state = "json") =>
               /\ entry' = entry
               /\ fs'[req.run].meta.state = "json"
               /\ SameButModelPath(fs'[req.run].meta.doc, req.disk.doc)]_vars

\* the two signals cut to their common length
CommonLength(x, y) == IF Len(x) < Len(y) THEN Len(x) ELSE Len(y)
CutX == SubSeq(arg.x, 1, CommonLength(arg.x, arg.y))
CutY == SubSeq(arg.y, 1, CommonLength(arg.x, arg.y))

\* the lag at which the magnitude of the cross-correlation of (output, input) is
\* greatest; among several such lags the smallest, which is the first index
PeakLag(x, y) ==
    LET n == Len(x)
        lags == (1 - n)..(n - 1)
    IN  CHOOSE k \in lags :
           /\ \A l \in lags : Abs(XCorrAt(x, y, l)) <= Abs(XCorrAt(x, y, k))
           /\ \A l \in lags : l < k => Abs(XCorrAt(x, y, l)) < Abs(XCorrAt(x, y, k))

\* C27: for two signals at the same rate the reported latency is the lag of the
\* first maximum of the absolute cross-correlation of (output, input) when that
\* lag is positive and 0 otherwise; it is never negative.
C27_LatencyIsClampedPeakLag ==
    (ret.op = "latency" /\ arg.sr_x = arg.sr_y) =>
       /\ ret.code = 200
       /\ ret.latencySamples >= 0
       /\ ret.latencySamples = IF PeakLag(CutX, CutY) > 0 THEN PeakLag(CutX, CutY) ELSE 0

\* C27 witness: the correlation peaks at a negative lag (the output leads the
\* input) and the reported latency is 0.
C27_Witness ==
    /\ ret.op = "latency"
    /\ arg.sr_x = arg.sr_y
    /\ Len(arg.x) # Len(arg.y)
    /\ PeakLag(CutX, CutY) < 0
    /\ ret.latencySamples = 0

====
